---- MODULE Spec2Model ----
(***************************************************************************)
(* Model of weight.py: the weight_data.csv bootstrap, the parser           *)
(* read_weight_data, the statistics / change / BMI helpers, create_plots   *)
(* and the main script that runs them in order.                            *)
(*                                                                         *)
(* Text is modelled as sequences of one-character strings, so that         *)
(* strftime / strptime / float / strip are conversions that can fail.      *)
(* Floats are modelled exactly: a weight is an integer number of twelfths  *)
(* of a kilogram (every mean of one to four whole-kilogram cells is one),  *)
(* and a quotient the code forms from them is a fraction [num, den].  The   *)
(* rounding of np.mean is modelled apart, on binary64 floats.              *)
(***************************************************************************)
EXTENDS Integers, Sequences, FiniteSets, TLC

VARIABLES csv, png, console, pc, current_date, reader, dates, daily_weights,
          stats, latest, weight_changes, charts, arg, ret

vars == <<csv, png, console, pc, current_date, reader, dates, daily_weights,
          stats, latest, weight_changes, charts, arg, ret>>

mainVars == <<csv, png, console, pc, current_date, reader, dates, daily_weights,
              stats, latest, weight_changes, charts>>

(***************************************************************************)
(* Bounds of the model.                                                    *)
(***************************************************************************)
MaxRows == 4    \* rows of a weight_data.csv the user hands to a run
MaxLen == 4     \* length of a weight sequence handed to a helper directly

(***************************************************************************)
(* Characters and numbers.                                                 *)
(***************************************************************************)
Digits == <<"0", "1", "2", "3", "4", "5", "6", "7", "8", "9">>

IsDigit(c) == \E i \in 1..10 : Digits[i] = c

DigitVal(c) == CHOOSE d \in 0..9 : Digits[d + 1] = c

IsSpace(c) == c = " "

RECURSIVE Pow10(_)
Pow10(n) == IF n = 0 THEN 1 ELSE 10 * Pow10(n - 1)

\* the decimal digits of a non-negative n, zero-padded to width w (%Y, %m, %d)
Pad(n, w) == [i \in 1..w |-> Digits[((n \div Pow10(w - i)) % 10) + 1]]

\* int() of a non-empty run of digits
RECURSIVE DigitsVal(_)
DigitsVal(s) ==
    IF s = <<>> THEN 0
    ELSE 10 * DigitsVal(SubSeq(s, 1, Len(s) - 1)) + DigitVal(s[Len(s)])

AllDigits(s) == s # <<>> /\ \A i \in 1..Len(s) : IsDigit(s[i])

(***************************************************************************)
(* datetime: dates are records [year, month, day].                         *)
(***************************************************************************)
IsLeap(y) == (y % 4 = 0 /\ y % 100 # 0) \/ y % 400 = 0

DaysInMonth(y, m) ==
    IF m = 2 THEN (IF IsLeap(y) THEN 29 ELSE 28)
    ELSE IF m \in {4, 6, 9, 11} THEN 30 ELSE 31

MkDate(y, m, d) == [year |-> y, month |-> m, day |-> d]

\* current_date += timedelta(days=1)
NextDay(dt) ==
    IF dt.day < DaysInMonth(dt.year, dt.month)
    THEN MkDate(dt.year, dt.month, dt.day + 1)
    ELSE IF dt.month < 12 THEN MkDate(dt.year, dt.month + 1, 1)
    ELSE MkDate(dt.year + 1, 1, 1)

\* the comparison as  current_date < end_date
DateLess(a, b) ==
    \/ a.year < b.year
    \/ a.year = b.year /\ a.month < b.month
    \/ a.year = b.year /\ a.month = b.month /\ a.day < b.day

\* datetime comparison a <= b
DateLeq(a, b) ==
    \/ a.year < b.year
    \/ a.year = b.year /\ a.month < b.month
    \/ a.year = b.year /\ a.month = b.month /\ a.day <= b.day

RECURSIVE DaysBeforeMonth(_, _)
DaysBeforeMonth(y, m) ==
    IF m = 1 THEN 0 ELSE DaysBeforeMonth(y, m - 1) + DaysInMonth(y, m - 1)

\* date.toordinal(): the proleptic Gregorian day number
toordinal(dt) ==
    LET y == dt.year - 1
    IN  365 * y + (y \div 4) - (y \div 100) + (y \div 400)
        + DaysBeforeMonth(dt.year, dt.month) + dt.day

start_date == MkDate(2025, 7, 1)
end_date == MkDate(2026, 12, 31)

\* strftime('%Y.%m.%d')
strftime(dt) ==
    Pad(dt.year, 4) \o <<".">> \o Pad(dt.month, 2) \o <<".">> \o Pad(dt.day, 2)

\* positions of the "." separators in s
DotsOf(s) == {i \in 1..Len(s) : s[i] = "."}

NoDate == [ok |-> FALSE, year |-> 0, month |-> 0, day |-> 0]

\* datetime.strptime(s, '%Y.%m.%d'): %Y is exactly four digits, %m and %d one
\* or two; a month or a day out of range, or any other text, is a ValueError
\* (ok = FALSE).
strptime(s) ==
    LET dots == DotsOf(s) IN
    IF Cardinality(dots) # 2 THEN NoDate
    ELSE LET p == CHOOSE i \in dots : \A j \in dots : i <= j
             q == CHOOSE i \in dots : \A j \in dots : j <= i
             ys == SubSeq(s, 1, p - 1)
             ms == SubSeq(s, p + 1, q - 1)
             ds == SubSeq(s, q + 1, Len(s))
         IN  IF ~(AllDigits(ys) /\ Len(ys) = 4
                  /\ AllDigits(ms) /\ Len(ms) <= 2
                  /\ AllDigits(ds) /\ Len(ds) <= 2)
             THEN NoDate
             ELSE LET y == DigitsVal(ys)
                      m == DigitsVal(ms)
                      d == DigitsVal(ds)
                  IN  IF y >= 1 /\ m \in 1..12 /\ d >= 1 /\ d <= DaysInMonth(y, m)
                      THEN [ok |-> TRUE, year |-> y, month |-> m, day |-> d]
                      ELSE NoDate

(***************************************************************************)
(* Cells and floats.                                                       *)
(***************************************************************************)
\* a field DictReader could not fill (a short row): restval None
None == <<"None">>

\* twelfths per kilogram: sum(weights) / len(weights) is exact for 1..4 cells
Scale == 3 * 4

RECURSIVE lstrip(_)
lstrip(s) == IF s # <<>> /\ IsSpace(s[1]) THEN lstrip(Tail(s)) ELSE s

RECURSIVE rstrip(_)
rstrip(s) ==
    IF s # <<>> /\ IsSpace(s[Len(s)]) THEN rstrip(SubSeq(s, 1, Len(s) - 1)) ELSE s

\* str.strip()
strip(s) == rstrip(lstrip(s))

\* float(s) on text made of digits, blanks, a sign and letters: surrounding
\* blanks are dropped, an optional sign and a run of digits is a number, and
\* anything else is a ValueError (ok = FALSE).  val is in twelfths of a kg.
float(s) ==
    LET t == strip(s)
        neg == t # <<>> /\ t[1] = "-"
        u == IF t # <<>> /\ t[1] \in {"-", "+"} THEN Tail(t) ELSE t
    IN  IF AllDigits(u)
        THEN [ok |-> TRUE, val |-> (IF neg THEN -1 ELSE 1) * DigitsVal(u) * Scale]
        ELSE [ok |-> FALSE, val |-> 0]

\* the test  row[weight_key] and row[weight_key].strip()
CellTruthy(c) == c # None /\ c # <<>> /\ strip(c) # <<>>

RECURSIVE Sum(_)
Sum(s) == IF s = <<>> THEN 0 ELSE s[1] + Sum(Tail(s))

\* the inner loop over Weight1..Weight4: the floats of the cells that pass the
\* test and parse, in column order
RECURSIVE RowWeights(_, _)
RowWeights(row, i) ==
    IF i > 4 THEN <<>>
    ELSE LET c == row.W[i]
             rest == RowWeights(row, i + 1)
         IN  IF CellTruthy(c) /\ float(c).ok THEN <<float(c).val>> \o rest ELSE rest

\* the mean as  sum(weights) / 4
RowAverageOverFour(weights) == Sum(weights) \div 4

\* avg_weight = sum(weights) / len(weights)
RowAverage(weights) == Sum(weights) \div Len(weights)

\* the turn with the date appended before the test  if weights
ReadRowDateFirst(row, acc) ==
    LET weights == RowWeights(row, 1)
        dt == strptime(row.Date)
    IN  IF ~dt.ok THEN [acc EXCEPT !.raised = TRUE]
        ELSE IF weights = <<>>
        THEN [acc EXCEPT !.dates = Append(@, MkDate(dt.year, dt.month, dt.day))]
        ELSE [acc EXCEPT !.dates = Append(@, MkDate(dt.year, dt.month, dt.day)),
                         !.daily_weights = Append(@, Sum(weights) \div Len(weights))]

\* One turn of  for row in reader  on the lists so far:  the row is skipped
\* when no cell gave a float; otherwise its Date is parsed (a ValueError there
\* is not caught: raised) and the date and the mean are appended.
ReadRow(row, acc) ==
    LET weights == RowWeights(row, 1) IN
    IF weights = <<>> THEN acc
    ELSE LET dt == strptime(row.Date) IN
         IF ~dt.ok THEN [acc EXCEPT !.raised = TRUE]
         ELSE [acc EXCEPT !.dates = Append(@, MkDate(dt.year, dt.month, dt.day)),
                          !.daily_weights = Append(@, RowAverage(weights))]

(***************************************************************************)
(* Statistics, changes, BMI.                                               *)
(***************************************************************************)
Frac(n, d) == [num |-> n, den |-> d]

NoneStats == [none |-> TRUE, avg |-> Frac(0, 1), max |-> 0, min |-> 0]

SeqMax(s) == CHOOSE x \in {s[i] : i \in 1..Len(s)} : \A j \in 1..Len(s) : s[j] <= x

SeqMin(s) == CHOOSE x \in {s[i] : i \in 1..Len(s)} : \A j \in 1..Len(s) : x <= s[j]

\* calculate_statistics(weights): (avg, max, min), or (None, None, None)
calculate_statistics(weights) ==
    IF weights = <<>> THEN NoneStats
    ELSE [none |-> FALSE,
          avg |-> Frac(Sum(weights), Len(weights)),
          max |-> SeqMax(weights),
          min |-> SeqMin(weights)]

\* the differences as  weights[i - 1] - weights[i]
calculate_weight_changes_swapped(weights) ==
    [i \in 1..(IF Len(weights) = 0 THEN 0 ELSE Len(weights) - 1)
        |-> weights[i] - weights[i + 1]]

\* calculate_weight_changes(weights): range(1, len(weights)) is empty for a
\* sequence of length 0 or 1
calculate_weight_changes(weights) ==
    [i \in 1..(IF Len(weights) = 0 THEN 0 ELSE Len(weights) - 1)
        |-> weights[i + 1] - weights[i]]

HEIGHT_CM == 175

DefaultHeightCm == 176

\* calculate_bmi(weight_kg, height_cm): weight_kg / (height_cm / 100) ** 2,
\* for a weight in twelfths of a kg
calculate_bmi(weight, height_cm) ==
    Frac(weight * 100 * 100, Scale * height_cm * height_cm)

NoneBmi == [none |-> TRUE, date |-> MkDate(0, 0, 0), bmi |-> Frac(0, 1)]

\* get_latest_bmi(dates, weights, height_cm)
get_latest_bmi(ds, weights, height_cm) ==
    IF weights = <<>> THEN NoneBmi
    ELSE [none |-> FALSE,
          date |-> ds[Len(ds)],
          bmi |-> calculate_bmi(weights[Len(weights)], height_cm)]

\* format(x, '.2f') of a fraction, as a number of hundredths: the nearest,
\* and of two equally near the even one
Format2f(x) ==
    LET q == (100 * x.num) \div x.den
        r == (100 * x.num) % x.den
    IN  IF 2 * r > x.den \/ (2 * r = x.den /\ q % 2 = 1) THEN q + 1 ELSE q

\* truth value of a float: zero is false
FloatTruthy(x) == x.num # 0

(***************************************************************************)
(* Python floats as np.mean sees them: IEEE 754 binary64, positive and     *)
(* normal.  A float is [exp, sig]: sig is a natural number of exactly      *)
(* MantDig bits and the value is sig * 2^(exp - MantDig + 1).  Naturals    *)
(* wider than a machine word are sequences of 15-bit limbs, least          *)
(* significant first.  Every operation rounds to nearest, ties to even,    *)
(* and reports whether it was exact.                                       *)
(***************************************************************************)
MantDig == 53

\* a limb holds fifteen bits, so that a product of two limbs fits a word
LimbBits == 3 * 5

Limb == 2 ^ LimbBits

\* without the zero limbs at the top
RECURSIVE BigNorm(_)
BigNorm(a) ==
    IF a # <<>> /\ a[Len(a)] = 0 THEN BigNorm(SubSeq(a, 1, Len(a) - 1)) ELSE a

\* a * m + c, for 0 <= m, c < Limb
RECURSIVE BigMulSmall(_, _, _)
BigMulSmall(a, m, c) ==
    IF a = <<>> THEN (IF c = 0 THEN <<>> ELSE <<c>>)
    ELSE LET t == a[1] * m + c
         IN  <<t % Limb>> \o BigMulSmall(Tail(a), m, t \div Limb)

\* a + b + c, for c in 0..1
RECURSIVE BigAdd(_, _, _)
BigAdd(a, b, c) ==
    IF a = <<>> /\ b = <<>> THEN (IF c = 0 THEN <<>> ELSE <<c>>)
    ELSE LET x == IF a = <<>> THEN 0 ELSE a[1]
             y == IF b = <<>> THEN 0 ELSE b[1]
             t == x + y + c
         IN  <<t % Limb>>
             \o BigAdd(IF a = <<>> THEN a ELSE Tail(a),
                       IF b = <<>> THEN b ELSE Tail(b), t \div Limb)

\* quotient and remainder of a by n, for 0 < n <= Limb, from the top limb down
RECURSIVE BigDivMod(_, _)
BigDivMod(a, n) ==
    IF a = <<>> THEN [q |-> <<>>, r |-> 0]
    ELSE LET hi == BigDivMod(Tail(a), n)
             t == hi.r * Limb + a[1]
         IN  [q |-> <<t \div n>> \o hi.q, r |-> t % n]

\* the number of bits of a limb
BitLen(d) == CHOOSE k \in 0..LimbBits : d < 2 ^ k /\ (k = 0 \/ d >= 2 ^ (k - 1))

\* the number of bits of a natural without zero limbs at the top
BigBitLen(a) ==
    IF a = <<>> THEN 0 ELSE LimbBits * (Len(a) - 1) + BitLen(a[Len(a)])

\* a * 2^k
RECURSIVE BigShiftLeft(_, _)
BigShiftLeft(a, k) ==
    IF k = 0 THEN a
    ELSE IF k < LimbBits THEN BigMulSmall(a, 2 ^ k, 0)
    ELSE <<0>> \o BigShiftLeft(a, k - LimbBits)

\* a < b, for naturals without zero limbs at the top
BigLess(a, b) ==
    \/ Len(a) < Len(b)
    \/ /\ Len(a) = Len(b)
       /\ \E i \in 1..Len(a) :
             /\ a[i] < b[i]
             /\ \A j \in (i + 1)..Len(a) : a[j] = b[j]

\* The float nearest to n * 2^e (n > 0 of at most MantDig + LimbBits bits),
\* ties to even; sticky says that the true value lies a little above n * 2^e.
FloatRound(n, e, sticky) ==
    LET L == BigBitLen(n) IN
    IF L <= MantDig
    THEN [exp |-> e + L - 1, sig |-> BigShiftLeft(n, MantDig - L), exact |-> ~sticky]
    ELSE LET cut == L - MantDig
             dm == BigDivMod(n, 2 ^ cut)
             q == BigNorm(dm.q)
             half == 2 ^ (cut - 1)
             up == \/ dm.r > half
                   \/ dm.r = half /\ (sticky \/ q[1] % 2 = 1)
             q1 == IF up THEN BigAdd(q, <<>>, 1) ELSE q
         IN  IF BigBitLen(q1) > MantDig
             THEN [exp |-> e + L, sig |-> BigNorm(BigDivMod(q1, 2).q),
                   exact |-> FALSE]
             ELSE [exp |-> e + L - 1, sig |-> q1, exact |-> dm.r = 0 /\ ~sticky]

\* x + y, for exponents at most LimbBits - 2 apart
FloatAdd(x, y) ==
    LET a == IF x.exp >= y.exp THEN x ELSE y
        b == IF x.exp >= y.exp THEN y ELSE x
    IN  FloatRound(BigAdd(BigShiftLeft(a.sig, a.exp - b.exp), b.sig, 0),
                   b.exp - MantDig + 1, FALSE)

\* x / n, for a whole n in 1..15
FloatDivInt(x, n) ==
    LET dm == BigDivMod(BigShiftLeft(x.sig, 8), n)
    IN  FloatRound(BigNorm(dm.q), x.exp - MantDig + 1 - 8, dm.r # 0)

\* float(k), for a whole k in 1..Limb-1
FloatOfInt(k) == FloatRound(<<k>>, 0, FALSE)

\* x < y
FloatLess(x, y) == x.exp < y.exp \/ (x.exp = y.exp /\ BigLess(x.sig, y.sig))

FloatEq(x, y) == x.exp = y.exp /\ x.sig = y.sig

\* float(text) for the decimal text of k / 10: the float nearest to k / 10,
\* which is also what the correctly rounded quotient float(k) / 10 is
FloatOfTenths(k) == FloatDivInt(FloatOfInt(k), 10)

NoFloat == [exp |-> 0, sig |-> <<>>, exact |-> TRUE]

NoneFloatStats == [none |-> TRUE, avg |-> NoFloat, max |-> NoFloat, min |-> NoFloat]

\* np.add.reduce over fewer than eight floats: res = 0.; res += a[i] in turn
\* (0. + a[0] is a[0])
RECURSIVE FloatSum(_, _)
FloatSum(weights, n) ==
    IF n = 1 THEN weights[1] ELSE FloatAdd(FloatSum(weights, n - 1), weights[n])

FloatMax(s) ==
    CHOOSE x \in {s[i] : i \in 1..Len(s)} : \A j \in 1..Len(s) : ~FloatLess(x, s[j])

FloatMin(s) ==
    CHOOSE x \in {s[i] : i \in 1..Len(s)} : \A j \in 1..Len(s) : ~FloatLess(s[j], x)

\* the statistics with np.sum in the place of np.mean
calculate_statistics_sum(weights) ==
    IF weights = <<>> THEN NoneFloatStats
    ELSE [none |-> FALSE,
          avg |-> FloatSum(weights, Len(weights)),
          max |-> FloatMax(weights),
          min |-> FloatMin(weights)]

\* calculate_statistics(weights) on floats: np.mean is the sum divided by the
\* count, np.max and np.min pick elements
calculate_statistics_float(weights) ==
    IF weights = <<>> THEN NoneFloatStats
    ELSE [none |-> FALSE,
          avg |-> FloatDivInt(FloatSum(weights, Len(weights)), Len(weights)),
          max |-> FloatMax(weights),
          min |-> FloatMin(weights)]

(***************************************************************************)
(* create_plots: the figure is three stacked axes; each is recorded by     *)
(* what was drawn on it.                                                   *)
(***************************************************************************)
\* ax1: the raw series
RawChart(ds, weights) ==
    [title |-> "Weight Change Over Time", lines |-> <<"Raw Data">>,
     text |-> "", zero_line |-> FALSE, points |-> Len(weights)]

\* ax2 with the test  len(weights) > 2
SmoothedChartFromThree(ds, weights) ==
    IF Len(weights) > 2
    THEN [title |-> "Smoothed Weight Change", lines |-> <<"Smoothed Data", "Raw Data">>,
          text |-> "", zero_line |-> FALSE, points |-> Len(weights)]
    ELSE [title |-> "Smoothed Weight Change", lines |-> <<>>,
          text |-> "Not enough data for smoothing", zero_line |-> FALSE, points |-> 0]

\* ax2: the spline and the raw series, or the fallback text
SmoothedChart(ds, weights) ==
    IF Len(weights) > 3
    THEN [title |-> "Smoothed Weight Change", lines |-> <<"Smoothed Data", "Raw Data">>,
          text |-> "", zero_line |-> FALSE, points |-> Len(weights)]
    ELSE [title |-> "Smoothed Weight Change", lines |-> <<>>,
          text |-> "Not enough data for smoothing", zero_line |-> FALSE, points |-> 0]

\* ax3: the change series over dates[1:] with axhline(y=0), or the fallback text
ChangeChart(ds, changes) ==
    IF Len(changes) > 0
    THEN [title |-> "Weight Change Rate Trend", lines |-> <<"change">>,
          text |-> "", zero_line |-> TRUE, points |-> Len(changes)]
    ELSE [title |-> "Weight Change Rate Trend", lines |-> <<>>,
          text |-> "Not enough data for change rate calculation",
          zero_line |-> FALSE, points |-> 0]

\* create_plots(dates, weights, weight_changes): the axes of plt.subplots(3, 1)
create_plots(ds, weights, changes) ==
    <<RawChart(ds, weights), SmoothedChart(ds, weights), ChangeChart(ds, changes)>>

(***************************************************************************)
(* The file weight_data.csv.                                               *)
(***************************************************************************)
Header == <<"Date", "Weight1", "Weight2", "Weight3", "Weight4">>

Absent == [exists |-> FALSE, header |-> <<>>, rows |-> <<>>]

\* writer.writerow([date_str, '', '', '', ''])
EmptyRow(dt) == [Date |-> strftime(dt), W |-> <<<<>>, <<>>, <<>>, <<>>>>]

\* the day n days after dt
RECURSIVE AddDays(_, _)
AddDays(dt, n) == IF n = 0 THEN dt ELSE AddDays(NextDay(dt), n - 1)

\* What a user may have typed into one row: the four cells, and whether the
\* Date cell is left as the bootstrap wrote it.
RowChoices ==
    { [date |-> "kept", W |-> << <<"7", "0">>, <<>>, <<"7", "1">>, <<>> >>],
      [date |-> "kept", W |-> << <<>>, <<>>, <<>>, <<>> >>],
      [date |-> "kept", W |-> << <<"a", "b", "c">>, <<" ">>, <<>>, None >>],
      [date |-> "kept", W |-> << <<"7", "o">>, <<"6", "9">>, <<" ", " ">>, <<>> >>],
      [date |-> "kept", W |-> << <<"0">>, <<>>, <<>>, <<>> >>],
      [date |-> "kept", W |-> << <<>>, <<" ", "7", "2", " ">>, <<"6", "9">>, <<"6", "9">> >>],
      [date |-> "dashes", W |-> << <<"7", "0">>, <<>>, <<>>, <<>> >>],
      [date |-> "no such day", W |-> << <<>>, <<"k", "g">>, <<>>, <<>> >>] }

\* the Date cell of row i under a choice
DateCell(i, how) ==
    IF how = "kept" THEN strftime(AddDays(start_date, i - 1))
    ELSE IF how = "dashes"
    THEN <<"2", "0", "2", "5", "-", "0", "7", "-", "0", "1">>
    ELSE <<"2", "0", "2", "5", ".", "0", "2", ".", "3", "0">>

\* the Date cells of the first MaxRows rows, by choice
DateCells ==
    [i \in 1..MaxRows |->
        [how \in {"kept", "dashes", "no such day"} |-> DateCell(i, how)]]

\* the file whose rows are filled in as the choices c say
UserFile(c) ==
    [exists |-> TRUE, header |-> Header,
     rows |-> [i \in 1..Len(c) |-> [Date |-> DateCells[i][c[i].date], W |-> c[i].W]]]

(***************************************************************************)
(* Console lines.                                                          *)
(***************************************************************************)
Line(kind, val) == [kind |-> kind, val |-> val]

StatisticsLines(st, n) ==
    << Line("Statistics:", <<>>),
       Line("Average weight", <<Format2f(Frac(st.avg.num, st.avg.den * Scale))>>),
       Line("Maximum weight", <<Format2f(Frac(st.max, Scale))>>),
       Line("Minimum weight", <<Format2f(Frac(st.min, Scale))>>),
       Line("Total data points", <<n>>) >>

BmiLine(l, height_cm) ==
    Line("Latest BMI", <<strftime(l.date), Format2f(l.bmi), height_cm>>)

(***************************************************************************)
(* main, step by step.                                                     *)
(***************************************************************************)
NotCalled == [fn |-> "none", stats |-> NoneStats, changes |-> <<>>, latest |-> NoneBmi]

Locals0 ==
    /\ current_date = start_date
    /\ reader = 1
    /\ dates = <<>>
    /\ daily_weights = <<>>
    /\ stats = NoneStats
    /\ latest = NoneBmi
    /\ weight_changes = <<>>
    /\ charts = <<>>

\* weight_data.csv is missing, or holds at most MaxRows rows a user filled in
Init ==
    /\ \/ csv = Absent
       \/ \E n \in 0..MaxRows : \E c \in [1..n -> RowChoices] : csv = UserFile(c)
    /\ png = FALSE
    /\ console = <<>>
    /\ pc = "start"
    /\ Locals0
    /\ arg = <<>>
    /\ ret = NotCalled

\* main calling initialize_csv without the test  os.path.exists
InitializeOpenAlways ==
    /\ pc = "start"
    /\ csv' = [exists |-> TRUE, header |-> Header, rows |-> <<>>]
    /\ current_date' = start_date
    /\ pc' = "init_loop"
    /\ UNCHANGED <<png, console, reader, dates, daily_weights, stats, latest,
                   weight_changes, charts, arg, ret>>

\* main, weight_data.csv missing: initialize_csv opens the file for writing
\* and writes the header row
InitializeOpen ==
    /\ pc = "start"
    /\ ~csv.exists
    /\ csv' = [exists |-> TRUE, header |-> Header, rows |-> <<>>]
    /\ current_date' = start_date
    /\ pc' = "init_loop"
    /\ UNCHANGED <<png, console, reader, dates, daily_weights, stats, latest,
                   weight_changes, charts, arg, ret>>

\* one turn of  while current_date <= end_date
InitializeWriteRow ==
    /\ pc = "init_loop"
    /\ DateLeq(current_date, end_date)
    /\ csv' = [csv EXCEPT !.rows = Append(@, EmptyRow(current_date))]
    /\ current_date' = NextDay(current_date)
    /\ UNCHANGED <<png, console, reader, pc, dates, daily_weights, stats, latest,
                   weight_changes, charts, arg, ret>>

\* the loop ends, initialize_csv returns, main prints the two lines and returns
InitializeReturn ==
    /\ pc = "init_loop"
    /\ ~DateLeq(current_date, end_date)
    /\ console' = console \o << Line("CSV file created: weight_data.csv", <<>>),
                                Line("Please fill in the weight data and run the program again.", <<>>) >>
    /\ pc' = "done"
    /\ UNCHANGED <<csv, png, current_date, reader, dates, daily_weights, stats, latest,
                   weight_changes, charts, arg, ret>>

\* main, weight_data.csv present: read_weight_data opens it and DictReader
\* takes the first line as the field names
ReadOpen ==
    /\ pc = "start"
    /\ csv.exists
    /\ reader' = 1
    /\ dates' = <<>>
    /\ daily_weights' = <<>>
    /\ pc' = "reading"
    /\ UNCHANGED <<csv, png, console, current_date, stats, latest,
                   weight_changes, charts, arg, ret>>

\* one turn of  for row in reader; a ValueError of strptime ends the program
ReadNextRow ==
    /\ pc = "reading"
    /\ reader <= Len(csv.rows)
    /\ LET r == ReadRow(csv.rows[reader],
                        [raised |-> FALSE, dates |-> dates,
                         daily_weights |-> daily_weights])
       IN  /\ dates' = r.dates
           /\ daily_weights' = r.daily_weights
           /\ pc' = IF r.raised THEN "crashed" ELSE "reading"
    /\ reader' = reader + 1
    /\ UNCHANGED <<csv, png, console, current_date, stats, latest,
                   weight_changes, charts, arg, ret>>

\* the rows are exhausted: return dates, daily_weights
ReadReturn ==
    /\ pc = "reading"
    /\ reader > Len(csv.rows)
    /\ pc' = "read"
    /\ UNCHANGED <<csv, png, console, current_date, reader, dates, daily_weights,
                   stats, latest, weight_changes, charts, arg, ret>>

\* the no-data branch without its  return
NoDataFallThrough ==
    /\ pc = "read"
    /\ daily_weights = <<>>
    /\ console' = Append(console, Line("No weight data found in the CSV file.", <<>>))
    /\ pc' = "changes"
    /\ UNCHANGED <<csv, png, current_date, reader, dates, daily_weights, stats, latest,
                   weight_changes, charts, arg, ret>>

\* if not daily_weights: print and return
NoDataReturn ==
    /\ pc = "read"
    /\ daily_weights = <<>>
    /\ console' = Append(console, Line("No weight data found in the CSV file.", <<>>))
    /\ pc' = "done"
    /\ UNCHANGED <<csv, png, current_date, reader, dates, daily_weights, stats, latest,
                   weight_changes, charts, arg, ret>>

\* calculate_statistics and the five lines of the summary
Statistics ==
    /\ pc = "read"
    /\ daily_weights # <<>>
    /\ stats' = calculate_statistics(daily_weights)
    /\ console' = console \o StatisticsLines(stats', Len(daily_weights))
    /\ pc' = "bmi"
    /\ UNCHANGED <<csv, png, current_date, reader, dates, daily_weights, latest,
                   weight_changes, charts, arg, ret>>

\* main calling  get_latest_bmi(dates, daily_weights)  without HEIGHT_CM
LatestBmiDefaultHeight ==
    /\ pc = "bmi"
    /\ latest' = get_latest_bmi(dates, daily_weights, DefaultHeightCm)
    /\ console' = IF ~latest'.none /\ FloatTruthy(latest'.bmi)
                  THEN Append(console, BmiLine(latest', HEIGHT_CM))
                  ELSE console
    /\ pc' = "changes"
    /\ UNCHANGED <<csv, png, current_date, reader, dates, daily_weights, stats,
                   weight_changes, charts, arg, ret>>

\* get_latest_bmi(dates, daily_weights, HEIGHT_CM) and
\* if latest_date and latest_bmi: print
LatestBmi ==
    /\ pc = "bmi"
    /\ latest' = get_latest_bmi(dates, daily_weights, HEIGHT_CM)
    /\ console' = IF ~latest'.none /\ FloatTruthy(latest'.bmi)
                  THEN Append(console, BmiLine(latest', HEIGHT_CM))
                  ELSE console
    /\ pc' = "changes"
    /\ UNCHANGED <<csv, png, current_date, reader, dates, daily_weights, stats,
                   weight_changes, charts, arg, ret>>

\* weight_changes = calculate_weight_changes(daily_weights)
Changes ==
    /\ pc = "changes"
    /\ weight_changes' = calculate_weight_changes(daily_weights)
    /\ pc' = "plots"
    /\ UNCHANGED <<csv, png, console, current_date, reader, dates, daily_weights, stats,
                   latest, charts, arg, ret>>

\* create_plots(...), savefig('weight_analysis.png'), the completion message
Plots ==
    /\ pc = "plots"
    /\ charts' = create_plots(dates, daily_weights, weight_changes)
    /\ png' = TRUE
    /\ console' = Append(console, Line("Plots saved as 'weight_analysis.png'", <<>>))
    /\ pc' = "done"
    /\ UNCHANGED <<csv, current_date, reader, dates, daily_weights, stats, latest,
                   weight_changes, arg, ret>>

\* the program is started again: a new process, a new console, the files as
\* the last run left them
RunAgain ==
    /\ pc \in {"done", "crashed"}
    /\ pc' = "start"
    /\ console' = <<>>
    /\ current_date' = start_date
    /\ reader' = 1
    /\ dates' = <<>>
    /\ daily_weights' = <<>>
    /\ stats' = NoneStats
    /\ latest' = NoneBmi
    /\ weight_changes' = <<>>
    /\ charts' = <<>>
    /\ UNCHANGED <<csv, png, arg, ret>>

Next ==
    \/ InitializeOpen
    \/ InitializeWriteRow
    \/ InitializeReturn
    \/ ReadOpen
    \/ ReadNextRow
    \/ ReadReturn
    \/ NoDataReturn
    \/ Statistics
    \/ LatestBmi
    \/ Changes
    \/ Plots
    \/ RunAgain

Spec == Init /\ [][Next]_vars

(***************************************************************************)
(* The helpers called directly, on weight sequences of at most MaxLen      *)
(* whole-kilogram values.                                                  *)
(***************************************************************************)
HelperWeights == {0 * Scale, 69 * Scale, 70 * Scale, 71 * Scale}

WeightSeqs == UNION { [1..n -> HelperWeights] : n \in 0..MaxLen }

\* one date per weight, from start_date on
DatesFor(weights) == [i \in 1..Len(weights) |-> AddDays(start_date, i - 1)]

InitHelpers ==
    /\ csv = Absent
    /\ png = FALSE
    /\ console = <<>>
    /\ pc = "helpers"
    /\ Locals0
    /\ arg \in WeightSeqs
    /\ ret = NotCalled

CallWeightChanges ==
    /\ ret' = [NotCalled EXCEPT !.fn = "calculate_weight_changes",
                                !.changes = calculate_weight_changes(arg)]
    /\ UNCHANGED <<mainVars, arg>>

\* get_latest_bmi(dates, weights): height_cm takes its default
CallLatestBmi ==
    /\ ret' = [NotCalled EXCEPT !.fn = "get_latest_bmi",
                                !.latest = get_latest_bmi(DatesFor(arg), arg, DefaultHeightCm)]
    /\ UNCHANGED <<mainVars, arg>>

\* create_plots(dates, weights, weight_changes) with the change series of the
\* weights, or with none
CallCreatePlots ==
    /\ \E changes \in {<<>>, calculate_weight_changes(arg)} :
         /\ charts' = create_plots(DatesFor(arg), arg, changes)
         /\ ret' = [NotCalled EXCEPT !.fn = "create_plots", !.changes = changes]
    /\ png' = TRUE
    /\ UNCHANGED <<csv, console, pc, current_date, reader, dates, daily_weights, stats,
                   latest, weight_changes, arg>>

NextHelpers == CallWeightChanges \/ CallLatestBmi \/ CallCreatePlots

SpecHelpers == InitHelpers /\ [][NextHelpers]_vars

(***************************************************************************)
(* calculate_statistics called directly, on at most MaxLen floats.         *)
(***************************************************************************)
\* 0.1, 69.5, 70.1 and 70.5
StatWeights == {FloatOfTenths(k) : k \in {1, 695, 701, 705}}

FloatSeqs == UNION { [1..n -> StatWeights] : n \in 0..MaxLen }

InitStatistics ==
    /\ csv = Absent
    /\ png = FALSE
    /\ console = <<>>
    /\ pc = "helpers"
    /\ Locals0
    /\ arg \in FloatSeqs
    /\ ret = [fn |-> "none", stats |-> NoneFloatStats]

CallStatistics ==
    /\ ret' = [fn |-> "calculate_statistics", stats |-> calculate_statistics_float(arg)]
    /\ UNCHANGED <<mainVars, arg>>

SpecStatistics == InitStatistics /\ [][CallStatistics]_vars

(***************************************************************************)
(* What the claims are stated with.                                        *)
(***************************************************************************)
\* the cell texts of RowChoices that are numbers, with the kilograms they spell
NumberTexts ==
    { <<"7", "0">>, <<"7", "1">>, <<"6", "9">>, <<"0">>, <<" ", "7", "2", " ">> }

Kilograms(c) ==
    CASE c = <<"7", "0">> -> 70
      [] c = <<"7", "1">> -> 71
      [] c = <<"6", "9">> -> 69
      [] c = <<"0">> -> 0
      [] c = <<" ", "7", "2", " ">> -> 72

ValidColumns(row) == {i \in 1..4 : row.W[i] \in NumberTexts}

RECURSIVE SumKilograms(_, _)
SumKilograms(row, cols) ==
    IF cols = {} THEN 0
    ELSE LET i == CHOOSE j \in cols : TRUE
         IN  Kilograms(row.W[i]) + SumKilograms(row, cols \ {i})

\* the indices of the rows with at least one number, ascending
RowsWithNumber(rows) ==
    LET K == {i \in 1..Len(rows) : ValidColumns(rows[i]) # {}}
    IN  [k \in 1..Cardinality(K) |->
            CHOOSE i \in K : Cardinality({j \in K : j <= i}) = k]

\* a Date cell of the form YYYY.MM.DD naming the day n days after 2025-07-01
IsDayText(s, n) ==
    /\ strptime(s).ok
    /\ toordinal(strptime(s)) = toordinal(MkDate(2025, 7, 1)) + n
    /\ Len(s) = 10

\* weight_data.csv is missing when this run starts / was missing
Bootstrapped ==
    /\ pc = "done"
    /\ console # <<>>
    /\ console[1].kind = "CSV file created: weight_data.csv"

LineKinds == [i \in 1..Len(console) |-> console[i].kind]

\* C1: after initialize_csv the file is the header and one row per day from
\* 2025-07-01 to 2026-12-31, both ends present, each row one day after the row
\* before it, and every measurement cell empty.
C1_BootstrapFile ==
    Bootstrapped =>
        /\ csv.exists
        /\ csv.header = <<"Date", "Weight1", "Weight2", "Weight3", "Weight4">>
        /\ Len(csv.rows) = 549
        /\ csv.rows[1].Date = <<"2", "0", "2", "5", ".", "0", "7", ".", "0", "1">>
        /\ csv.rows[549].Date = <<"2", "0", "2", "6", ".", "1", "2", ".", "3", "1">>
        /\ \A i \in 1..Len(csv.rows) :
              /\ IsDayText(csv.rows[i].Date, i - 1)
              /\ csv.rows[i].W = << <<>>, <<>>, <<>>, <<>> >>

C1_Witness == Bootstrapped /\ Len(csv.rows) > 1

\* C2: every daily weight read_weight_data records is the mean of exactly the
\* number cells of its row (mean * count = sum); cells that are empty, blank
\* or not a number are neither summed nor counted, and a row with a number
\* and a non-number is kept; cells 70, "", 71, "" give 70.5.
C2_DailyMean ==
    pc = "read" =>
        LET kept == RowsWithNumber(csv.rows) IN
        /\ Len(daily_weights) = Len(kept)
        /\ \A k \in 1..Len(kept) :
              LET row == csv.rows[kept[k]]
                  cols == ValidColumns(row)
              IN  /\ daily_weights[k] * Cardinality(cols)
                        = Scale * SumKilograms(row, cols)
                  /\ row.W = << <<"7", "0">>, <<>>, <<"7", "1">>, <<>> >>
                        => 2 * daily_weights[k] = 141 * Scale

C2_Witness ==
    /\ pc = "read"
    /\ \E k \in 1..Len(csv.rows) :
          /\ csv.rows[k].W = << <<"7", "o">>, <<"6", "9">>, <<" ", " ">>, <<>> >>
          /\ \E j \in 1..Len(daily_weights) : daily_weights[j] = 69 * Scale
    /\ \E k \in 1..Len(csv.rows) :
          csv.rows[k].W = << <<"7", "0">>, <<>>, <<"7", "1">>, <<>> >>

\* every row with a number has a Date cell strptime accepts
NumberRowsDated ==
    \A i \in 1..Len(csv.rows) :
        ValidColumns(csv.rows[i]) # {} => strptime(csv.rows[i].Date).ok

\* the series is one entry per row with a number, in file order, date and
\* weight of entry k from the same row
SeriesMatchesRows ==
    LET kept == RowsWithNumber(csv.rows) IN
    /\ Len(dates) = Len(kept)
    /\ Len(daily_weights) = Len(kept)
    /\ \A k \in 1..Len(kept) :
          LET row == csv.rows[kept[k]] IN
          /\ toordinal(dates[k]) = toordinal(MkDate(2025, 7, 1)) + kept[k] - 1
          /\ strftime(dates[k]) = row.Date
          /\ daily_weights[k] * Cardinality(ValidColumns(row))
                = Scale * SumKilograms(row, ValidColumns(row))

\* C3 as stated: for every file content read_weight_data returns the series of
\* exactly the rows with a number, in file order, dates and weights parallel.
C3_EveryContent ==
    pc \in {"read", "crashed"} => pc = "read" /\ SeriesMatchesRows

\* C3 amended: it does so for every content in which each row with a number
\* has a Date cell of the form YYYY.MM.DD naming a real day; with a row that
\* has a number and any other Date cell it raises ValueError and returns
\* nothing.
C3_DatedContent ==
    pc \in {"read", "crashed"} =>
        IF NumberRowsDated THEN pc = "read" /\ SeriesMatchesRows
        ELSE pc = "crashed"

C3_Witness ==
    /\ pc = "read"
    /\ Len(csv.rows) = 3
    /\ RowsWithNumber(csv.rows) = <<1, 3>>
    /\ strptime(csv.rows[2].Date).ok = FALSE

\* C4 as stated: for every sequence w the result has length Len(w) - 1 and
\* its i-th element is w[i+1] - w[i].
C4_LengthMinusOne ==
    ret.fn = "calculate_weight_changes" =>
        /\ Len(ret.changes) = Len(arg) - 1
        /\ \A i \in 1..Len(ret.changes) : ret.changes[i] = arg[i + 1] - arg[i]

\* C4 amended: that holds for every non-empty w; for the empty sequence the
\* result is empty (length 0, not -1).  Weights 70, 71, 69 give 1, -2.
C4_FirstDifferences ==
    ret.fn = "calculate_weight_changes" =>
        /\ Len(arg) > 0 => Len(ret.changes) = Len(arg) - 1
        /\ Len(arg) = 0 => ret.changes = <<>>
        /\ \A i \in 1..Len(ret.changes) : ret.changes[i] = arg[i + 1] - arg[i]
        /\ arg = <<70 * Scale, 71 * Scale, 69 * Scale>>
              => ret.changes = <<1 * Scale, (-2) * Scale>>

C4_Witness ==
    /\ ret.fn = "calculate_weight_changes"
    /\ arg = <<70 * Scale, 71 * Scale, 69 * Scale>>

\* C5: bootstrap runs exactly when weight_data.csv is absent at the start of a
\* run; that run creates the file, prints the two instructional lines and
\* returns without reading, statistics, plots or weight_analysis.png; a run
\* that finds the file never changes it.
C5_BootstrapOnlyWhenAbsent ==
    /\ [][ /\ (pc = "start" /\ ~csv.exists) => (pc' = "init_loop" /\ csv'.exists)
           /\ (pc = "start" /\ csv.exists) => pc' # "init_loop"
           /\ (pc # "init_loop" /\ csv.exists) => csv' = csv
           /\ pc = "init_loop" =>
                 /\ pc' \in {"init_loop", "done"}
                 /\ <<png, dates, daily_weights, stats, latest, weight_changes, charts>>'
                       = <<png, dates, daily_weights, stats, latest, weight_changes, charts>>
         ]_vars
    /\ [](Bootstrapped =>
            /\ LineKinds = << "CSV file created: weight_data.csv",
                              "Please fill in the weight data and run the program again." >>
            /\ dates = <<>> /\ daily_weights = <<>> /\ stats.none /\ charts = <<>>)

\* a further run reading the user's rows after a run that plotted them
C5_Witness ==
    /\ pc = "read"
    /\ png
    /\ Len(csv.rows) = 2
    /\ Len(daily_weights) = 2

\* C6: when the file exists and the parsed series is empty (as on the run
\* right after bootstrap) main prints the no-data message and returns: no
\* statistics or BMI line, no calculate_statistics, no create_plots, no
\* weight_analysis.png written.
C6_EmptySeriesExit ==
    /\ [][ (pc = "read" /\ daily_weights = <<>>) =>
              /\ pc' = "done"
              /\ console' = <<Line("No weight data found in the CSV file.", <<>>)>>
              /\ <<png, stats, latest, weight_changes, charts, csv>>'
                    = <<png, stats, latest, weight_changes, charts, csv>>
         ]_vars
    /\ []((pc = "read" /\ Len(csv.rows) = 549) => daily_weights = <<>>)
    /\ []((pc = "read" /\ daily_weights = <<>>) =>
             (console = <<>> /\ stats.none /\ latest.none /\ charts = <<>>))

C6_Witness ==
    /\ pc = "done"
    /\ Len(csv.rows) = 549
    /\ LineKinds = <<"No weight data found in the CSV file.">>
    /\ ~png

\* the console of a finished run over a non-empty series
FullReport ==
    << "Statistics:", "Average weight", "Maximum weight", "Minimum weight",
       "Total data points", "Latest BMI", "Plots saved as 'weight_analysis.png'" >>

\* C7: a run over a non-empty series prints the statistics summary, the
\* latest BMI line and the completion message, once each, in that order,
\* whatever the last daily weight is.
C7_ReportOrder ==
    (pc = "done" /\ daily_weights # <<>>) => LineKinds = FullReport

\* C8: create_plots draws the spline exactly for 4 or more points and the
\* smoothing fallback text for 0 to 3; the change chart with its zero line
\* exactly for a non-empty change series and the fallback text otherwise;
\* always three charts, and weight_analysis.png is written.
C8_PlotFallbacks ==
    ret.fn = "create_plots" =>
        /\ Len(charts) = 3
        /\ png
        /\ charts[1].lines = <<"Raw Data">>
        /\ (Len(arg) >= 4) <=> ("Smoothed Data" \in {charts[2].lines[i] : i \in 1..Len(charts[2].lines)})
        /\ (Len(arg) \in 0..3) <=> (charts[2].text = "Not enough data for smoothing")
        /\ (Len(ret.changes) > 0) <=> (charts[3].lines # <<>> /\ charts[3].zero_line)
        /\ (Len(ret.changes) = 0) <=>
              (charts[3].text = "Not enough data for change rate calculation")

C8_Witness ==
    /\ ret.fn = "create_plots"
    /\ Len(arg) = 4
    /\ charts[2].lines = <<"Smoothed Data", "Raw Data">>
    /\ charts[3].zero_line

\* every addition of the running sum of the first n weights is exact
RECURSIVE SumIsExact(_, _)
SumIsExact(weights, n) ==
    n = 1 \/ (SumIsExact(weights, n - 1) /\ FloatSum(weights, n).exact)

FloatLeq(x, y) == ~FloatLess(y, x)

StatisticsOfElements ==
    /\ ~ret.stats.none
    /\ \E i \in 1..Len(arg) : FloatEq(arg[i], ret.stats.max)
    /\ \E i \in 1..Len(arg) : FloatEq(arg[i], ret.stats.min)
    /\ \A i \in 1..Len(arg) :
          FloatLeq(ret.stats.min, arg[i]) /\ FloatLeq(arg[i], ret.stats.max)

\* C9 as stated: calculate_statistics returns (None, None, None) for the empty
\* sequence and (mean, max, min) with min <= mean <= max for every other.
C9_MeanBetween ==
    ret.fn = "calculate_statistics" =>
        IF arg = <<>> THEN ret.stats.none
        ELSE /\ StatisticsOfElements
             /\ FloatLeq(ret.stats.min, ret.stats.avg)
             /\ FloatLeq(ret.stats.avg, ret.stats.max)

\* C9 amended: (None, None, None) for the empty sequence; for every other,
\* max and min are its largest and smallest elements and the mean is the
\* floating-point sum divided by the length, which lies between min and max
\* whenever no addition of the sum rounds (one weight is its own mean; the
\* mean of 69.5 and 70.5 is 70.0).
C9_MeanBetweenWhenExact ==
    ret.fn = "calculate_statistics" =>
        IF arg = <<>> THEN ret.stats.none
        ELSE /\ StatisticsOfElements
             /\ SumIsExact(arg, Len(arg)) =>
                   /\ FloatLeq(ret.stats.min, ret.stats.avg)
                   /\ FloatLeq(ret.stats.avg, ret.stats.max)
             /\ Len(arg) = 1 => FloatEq(ret.stats.avg, arg[1])
             /\ arg = <<FloatOfTenths(695), FloatOfTenths(705)>>
                   => FloatEq(ret.stats.avg, FloatOfInt(70))

C9_Witness ==
    /\ ret.fn = "calculate_statistics"
    /\ Len(arg) = 3
    /\ SumIsExact(arg, 3)
    /\ FloatLess(ret.stats.min, ret.stats.avg)
    /\ FloatLess(ret.stats.avg, ret.stats.max)

\* C10: BMI is kg / (height in metres)^2; every BMI line main prints is that
\* of the last entry of the daily series with the height of 175 cm, never
\* 176; BMI(70 kg, 175 cm) prints as 22.86.
C10_ReportedBmi ==
    /\ Format2f(calculate_bmi(70 * Scale, 175)) = 2286
    /\ \A i \in 1..Len(console) :
          console[i].kind = "Latest BMI" =>
              /\ daily_weights # <<>>
              /\ console[i].val[1] = strftime(dates[Len(dates)])
              /\ console[i].val[3] = 175
              /\ console[i].val[2] =
                    Format2f(Frac(daily_weights[Len(daily_weights)] * 10000,
                                  Scale * 175 * 175))

C10_Witness ==
    /\ Len(console) = 6
    /\ console[6].kind = "Latest BMI"
    /\ console[6].val[2] = 2286
    /\ Len(daily_weights) = 2
    /\ daily_weights[1] # daily_weights[2]

====
